---- MODULE Spec2Model ----
(***************************************************************************)
(* Double-pendulum numerical analysis notebook                             *)
(* (src/Double_Pendulum_Numerical_Analysis.ipynb): the two right-hand-side *)
(* evaluators, the vertical-crossing locator find_vertical, the sweep      *)
(* drivers p_w_plot / length_plot / mass_plot and plot_comparison.         *)
(*                                                                         *)
(* Number representation.                                                  *)
(*  - Lengths, masses, g, angular velocities and the observable are reals  *)
(*    held in fixed point, as integer multiples of 1/FP (FP = 20, so that  *)
(*    0.25, 0.05, 9.8 and 999 are all exact).                              *)
(*  - Angles that go through sin/cos are integer multiples of pi/2, where  *)
(*    sin and cos are exactly -1, 0 or 1, so l*sin(phi) stays exact.       *)
(*  - Grid angles (initial conditions only, never fed to sin) are integer  *)
(*    multiples of pi/60; so are the times of a time grid.                 *)
(*  - A direct call of dp_rhs / sa_dp_rhs takes integer-valued reals and   *)
(*    is evaluated exactly: a quotient is the pair [num, den].  The        *)
(*    rounding, overflow and underflow of float64 are not represented.     *)
(*  - The module-level list p is shared and mutable: the drivers read it,  *)
(*    take copies of it, and a notebook cell may store into it between     *)
(*    calls; l1 and l2 are separate module-level names.                    *)
(*  - scipy's odeint is outside the repository; it is the set of           *)
(*    trajectories it may hand back for a caller-supplied rhs.             *)
(***************************************************************************)
EXTENDS Integers, Sequences, FiniteSets, TLC

\* ------------------------------------------------------------------ bounds
MaxLen == 3          \* longest angle series handed to find_vertical directly
NSamples == 2        \* samples per trajectory (the notebook's N, scaled down)
MaxIterN == 2        \* largest iter_n of p_w_plot
MaxN == 2            \* largest n of length_plot / mass_plot

\* --------------------------------------------------------- representation
FP == 20             \* fixed-point denominator: 1/0.05, the finest decimal used (w_err)
None == -1           \* Python's None where an index is expected

abs(x) == IF x < 0 THEN -x ELSE x

\* numpy.sin / numpy.cos at k*pi/2
sin(k) == CASE k % 4 = 0 -> 0
            [] k % 4 = 1 -> 1
            [] k % 4 = 2 -> 0
            [] k % 4 = 3 -> -1
cos(k) == sin(k + 1)

\* numpy.linspace(start, stop, num), 1-based here; a step that is not a
\* multiple of the fixed-point unit is truncated to it
linspace(start, stop, num) ==
    [k \in 1..num |-> IF num = 1 THEN start
                      ELSE start + ((k - 1) * (stop - start)) \div (num - 1)]

\* ------------------------------------------------- module-level parameters
m1 == 1 * FP
m2 == 1 * FP
g == 196             \* 9.8
l1 == 1 * FP
l2 == 1 * FP
w1 == 0
w2 == 0
QuarterPi == 15      \* pi/4 in units of pi/60
HalfPi == 30         \* pi/2 in units of pi/60
p1 == QuarterPi
p2 == QuarterPi
abserr == 1          \* 1.0e-8, carried as a tag only (never computed with)
relerr == 100        \* 1.0e-6, in the same unit as abserr

\* ---------------------------------------------------------- find_vertical
closest0 == 999 * FP \* closest = 999

\* |l1*sin(p1[i]) + l2*sin(p2[i])| for the 0-based index i
Deviation(a1, a2, s1, s2, i) == abs(a1 * sin(s1[i + 1]) + a2 * sin(s2[i + 1]))

\* one pass of the loop body for index i
fv_body(acc, a1, a2, s1, s2, i) ==
    LET x == Deviation(a1, a2, s1, s2, i)
    IN  IF x < acc.closest THEN [closest |-> x, closest_index |-> i] ELSE acc

RECURSIVE fv_loop(_, _, _, _, _, _)
fv_loop(acc, a1, a2, s1, s2, i) ==
    IF i >= Len(s1) THEN acc
    ELSE fv_loop(fv_body(acc, a1, a2, s1, s2, i), a1, a2, s1, s2, i + 1)

\* the value find_vertical returns: an index 0..len-1, or None
find_vertical(a1, a2, s1, s2) ==
    fv_loop([closest |-> closest0, closest_index |-> None], a1, a2, s1, s2, 0).closest_index

\* ------------------------------------------------------------------ state
VARIABLES
    pc,          \* where the notebook's single thread of control is
    p,           \* module-level parameter list [m1, m2, l1, l2, g]
    IC,          \* module-level default initial conditions
    t_interval,  \* module-level time grid
    fv,          \* frame of a direct find_vertical call
    sw,          \* frame of length_plot / mass_plot
    pw,          \* frame of p_w_plot
    cmp,         \* frame of plot_comparison
    rc           \* frame of a direct dp_rhs / sa_dp_rhs call

vars == <<pc, p, IC, t_interval, fv, sw, pw, cmp, rc>>
globals == <<p, IC, t_interval>>

t_end == HalfPi
p_0 == <<m1, m2, l1, l2, g>>
IC_0 == <<p1, 0, p2, 0>>
t_interval_0 == linspace(0, t_end, NSamples)

\* the frame of a function that is not running
NoFrame == [fn |-> "none"]

\* find_vertical's locals on entry
fv_entry == [l1 |-> 0, l2 |-> 0, p1 |-> <<>>, p2 |-> <<>>, i |-> 0,
         closest |-> closest0, closest_index |-> None, ret |-> None]

\* ------------------------------------------- find_vertical, step by step
FVLengths == {5, 1 * FP, 999 * FP}      \* 0.25, 1.0, 999.0
FVAngles == {0, 1, 3}                     \* 0, pi/2, 3*pi/2

find_vertical_call ==
    /\ pc = "idle"
    /\ \E a1 \in FVLengths, a2 \in FVLengths, n \in 0..MaxLen :
         \E s1 \in [1..n -> FVAngles], s2 \in [1..n -> FVAngles] :
            fv' = [fv_entry EXCEPT !.l1 = a1, !.l2 = a2, !.p1 = s1, !.p2 = s2]
    /\ pc' = "fv_loop"
    /\ UNCHANGED <<globals, sw, pw, cmp, rc>>

find_vertical_step ==
    /\ pc = "fv_loop"
    /\ fv.i < Len(fv.p1)
    /\ LET acc == fv_body([closest |-> fv.closest, closest_index |-> fv.closest_index],
                          fv.l1, fv.l2, fv.p1, fv.p2, fv.i)
       IN  fv' = [fv EXCEPT !.closest = acc.closest,
                            !.closest_index = acc.closest_index,
                            !.i = fv.i + 1]
    /\ UNCHANGED <<pc, globals, sw, pw, cmp, rc>>

find_vertical_return ==
    /\ pc = "fv_loop"
    /\ fv.i >= Len(fv.p1)
    /\ fv' = [fv EXCEPT !.ret = fv.closest_index]
    /\ pc' = "fv_done"
    /\ UNCHANGED <<globals, sw, pw, cmp, rc>>

\* ----------------------------------------------------------------- odeint
\* A trajectory is a sequence of states <<phi1, omega1, phi2, omega2>>, one per
\* time of the grid.  rhs is a caller-supplied callable, so odeint is the set
\* of trajectories it may return for the grid; phi in units of pi/2, omega in
\* fixed point.
TrajPhi1 == {0, 1}
Omegas == {-3 * FP, 1 * FP}     \* omega2 = -3.0 and 1.0: observables 3.0 and -1.0
TrajStates == {<<a, 0, 0, w>> : a \in TrajPhi1, w \in Omegas}

odeint(rhs, y0, t, args) == [1..Len(t) -> TrajStates]

\* what a driver hands to odeint
OdeCall(rhs, y0, t, args) ==
    [rhs |-> rhs, y0 |-> y0, t |-> t, args |-> args, atol |-> abserr, rtol |-> relerr]
NoCall == OdeCall("none", <<>>, <<>>, <<>>)

\* v_sol[:, c]
Col(v_sol, c) == [k \in 1..Len(v_sol) |-> v_sol[k][c + 1]]

\* numpy's arr[idx]: a scalar for an integer index, and for None the whole
\* array under a new leading axis (shape (1, N)); -x negates elementwise
getitem(arr, idx) ==
    IF idx = None THEN [ndim |-> 2, v |-> arr] ELSE [ndim |-> 0, v |-> <<arr[idx + 1]>>]
neg(x) == [x EXCEPT !.v = [k \in DOMAIN x.v |-> -(x.v[k])]]

Rhs == {"dp_rhs", "sa_dp_rhs"}

\* ------------------------------------------------ length_plot / mass_plot
\* the sweep's locals on entry
sw_entry == [fn |-> "none", rhs |-> "none", first |-> TRUE, n |-> 0, arr |-> <<>>,
         p_x |-> <<>>, alias |-> FALSE, w2_list |-> <<>>, i |-> 0, v_sol |-> <<>>,
         fv_args |-> <<>>, t_index |-> None, ode |-> NoCall]

copy_Alias(lst) == [items |-> lst, alias |-> TRUE]

\* lst.copy(): a new list with the items of lst; a store into it leaves lst alone
copy(lst) == [items |-> lst, alias |-> FALSE]

\* the global p after a store into the frame's list p_x, which is p itself
\* only when the local name aliases it
p_after_store(f) == IF f.alias THEN f.p_x ELSE p

LMaxValues == {10 * FP, 2000 * FP}     \* l_max: the default, and a long rod
MMaxValues == {50 * FP}                \* m_max: the default
x_min == 5                             \* 0.25, the first grid value of both sweeps

length_plot_body_AlwaysL1(f, l, v_sol) ==
    LET p_l == [f.p_x EXCEPT ![3] = l]
        fv_args == IF f.first THEN <<l, l2>> ELSE <<l1, l>>
        t_index == find_vertical(fv_args[1], fv_args[2], Col(v_sol, 0), Col(v_sol, 2))
    IN  [f EXCEPT !.p_x = p_l,
                  !.ode = OdeCall(f.rhs, IC, t_interval, p_l),
                  !.v_sol = v_sol,
                  !.fv_args = fv_args,
                  !.t_index = t_index,
                  !.w2_list = Append(@, neg(getitem(Col(v_sol, 3), t_index))),
                  !.i = @ + 1]

\* the body of length_plot's loop for the grid value l, on the frame f
length_plot_body(f, l, v_sol) ==
    LET p_l == IF f.first THEN [f.p_x EXCEPT ![3] = l] ELSE [f.p_x EXCEPT ![4] = l]
        p1_arr == Col(v_sol, 0)
        p2_arr == Col(v_sol, 2)
        w2_arr == Col(v_sol, 3)
        fv_args == IF f.first THEN <<l, l2>> ELSE <<l1, l>>
        t_index == find_vertical(fv_args[1], fv_args[2], p1_arr, p2_arr)
    IN  [f EXCEPT !.p_x = p_l,
                  !.ode = OdeCall(f.rhs, IC, t_interval, p_l),
                  !.v_sol = v_sol,
                  !.fv_args = fv_args,
                  !.t_index = t_index,
                  !.w2_list = Append(@, neg(getitem(w2_arr, t_index))),
                  !.i = @ + 1]

length_plot_call ==
    /\ pc = "idle"
    /\ \E rhs \in Rhs, plot_l1 \in BOOLEAN, n \in 0..MaxN, l_max \in LMaxValues :
          sw' = [sw_entry EXCEPT !.fn = "length_plot", !.rhs = rhs, !.first = plot_l1,
                             !.n = n, !.arr = linspace(x_min, l_max, n),
                             !.p_x = copy(p).items, !.alias = copy(p).alias]
    /\ pc' = "lp_loop"
    /\ UNCHANGED <<globals, fv, pw, cmp, rc>>

length_plot_step ==
    /\ pc = "lp_loop"
    /\ sw.i < sw.n
    /\ LET l == sw.arr[sw.i + 1]
           p_l == IF sw.first THEN [sw.p_x EXCEPT ![3] = l] ELSE [sw.p_x EXCEPT ![4] = l]
       IN  \E v_sol \in odeint(sw.rhs, IC, t_interval, p_l) :
              sw' = length_plot_body(sw, l, v_sol)
    /\ p' = p_after_store(sw')
    /\ UNCHANGED <<pc, IC, t_interval, fv, pw, cmp, rc>>

length_plot_return ==
    /\ pc = "lp_loop"
    /\ sw.i >= sw.n
    /\ pc' = "lp_done"
    /\ UNCHANGED <<globals, fv, sw, pw, cmp, rc>>

\* the body of mass_plot's loop for the grid value m, on the frame f
mass_plot_body(f, m, v_sol) ==
    LET p_m == IF f.first THEN [f.p_x EXCEPT ![1] = m] ELSE [f.p_x EXCEPT ![2] = m]
        p1_arr == Col(v_sol, 0)
        p2_arr == Col(v_sol, 2)
        w2_arr == Col(v_sol, 3)
        fv_args == <<l1, l2>>
        t_index == find_vertical(fv_args[1], fv_args[2], p1_arr, p2_arr)
    IN  [f EXCEPT !.p_x = p_m,
                  !.ode = OdeCall(f.rhs, IC, t_interval, p_m),
                  !.v_sol = v_sol,
                  !.fv_args = fv_args,
                  !.t_index = t_index,
                  !.w2_list = Append(@, neg(getitem(w2_arr, t_index))),
                  !.i = @ + 1]

mass_plot_call ==
    /\ pc = "idle"
    /\ \E rhs \in Rhs, plot_m1 \in BOOLEAN, n \in 0..MaxN, m_max \in MMaxValues :
          sw' = [sw_entry EXCEPT !.fn = "mass_plot", !.rhs = rhs, !.first = plot_m1,
                             !.n = n, !.arr = linspace(x_min, m_max, n),
                             !.p_x = copy(p).items, !.alias = copy(p).alias]
    /\ pc' = "mp_loop"
    /\ UNCHANGED <<globals, fv, pw, cmp, rc>>

mass_plot_step ==
    /\ pc = "mp_loop"
    /\ sw.i < sw.n
    /\ LET m == sw.arr[sw.i + 1]
           p_m == IF sw.first THEN [sw.p_x EXCEPT ![1] = m] ELSE [sw.p_x EXCEPT ![2] = m]
       IN  \E v_sol \in odeint(sw.rhs, IC, t_interval, p_m) :
              sw' = mass_plot_body(sw, m, v_sol)
    /\ p' = p_after_store(sw')
    /\ UNCHANGED <<pc, IC, t_interval, fv, pw, cmp, rc>>

mass_plot_return ==
    /\ pc = "mp_loop"
    /\ sw.i >= sw.n
    /\ pc' = "mp_done"
    /\ UNCHANGED <<globals, fv, sw, pw, cmp, rc>>

\* --------------------------------------------------------------- p_w_plot
max0 == 0            \* max_w2_for_current_p1 = 0
min0 == 9999 * FP    \* min_w2_for_current_p1 = 9999

\* p_w_plot's locals on entry
pw_entry == [rhs |-> "none", w_val |-> 0, show_level_curve |-> FALSE, iter_n |-> 0,
         w_err |-> 0, iter_p1 |-> <<>>, iter_p2 |-> <<>>,
         p1_err_list |-> <<>>, p2_err_list |-> <<>>, w2_err_list |-> <<>>,
         p1_list |-> <<>>, p2_list |-> <<>>, w2_list |-> <<>>,
         max_p2_list |-> <<>>, max_w2_list |-> <<>>,
         min_p2_list |-> <<>>, min_w2_list |-> <<>>,
         i |-> 0, j |-> 0,
         max_w2_for_current_p1 |-> max0, min_w2_for_current_p1 |-> min0,
         w2_at_vertical |-> 0, fv_args |-> <<>>, ode |-> NoCall]

WVals == {3 * FP}       \* w_val: the default level
WErrs == {1}            \* w_err: the default 0.05
AngleStart == 4         \* pi/15 in units of pi/60
AngleEnd == HalfPi      \* pi/2

\* list.index(x): 0-based position of the first element equal to x, None for
\* Python's ValueError
index(lst, x) ==
    IF \E k \in 1..Len(lst) : lst[k] = x
    THEN (CHOOSE k \in 1..Len(lst) : lst[k] = x /\ \A h \in 1..(k - 1) : lst[h] # x) - 1
    ELSE None

\* the running extrema after one observable
pw_track(f, w2_at_vertical) ==
    LET mx == IF w2_at_vertical > f.max_w2_for_current_p1
              THEN w2_at_vertical ELSE f.max_w2_for_current_p1
        mn == IF w2_at_vertical < f.min_w2_for_current_p1
              THEN w2_at_vertical ELSE f.min_w2_for_current_p1
    IN  [f EXCEPT !.w2_at_vertical = w2_at_vertical,
                  !.max_w2_for_current_p1 = mx, !.min_w2_for_current_p1 = mn]

\* the three flat lists after one grid point
pw_record_Swapped(f, a1, a2, w2_at_vertical) ==
    [f EXCEPT !.w2_list = Append(@, w2_at_vertical),
              !.p1_list = Append(@, a2),
              !.p2_list = Append(@, a1)]

pw_record(f, a1, a2, w2_at_vertical) ==
    [f EXCEPT !.w2_list = Append(@, w2_at_vertical),
              !.p1_list = Append(@, a1),
              !.p2_list = Append(@, a2)]

\* the level-curve lists after one grid point
pw_level(f, a1, a2, w2_at_vertical) ==
    IF f.show_level_curve /\ abs(f.w_val - w2_at_vertical) < f.w_err
    THEN [f EXCEPT !.p1_err_list = Append(@, a1),
                   !.p2_err_list = Append(@, a2),
                   !.w2_err_list = Append(@, w2_at_vertical)]
    ELSE f

p_w_plot_call ==
    /\ pc = "idle"
    /\ \E rhs \in Rhs, w_val \in WVals, show_level_curve \in BOOLEAN,
          iter_n \in 0..MaxIterN, w_err \in WErrs :
          pw' = [pw_entry EXCEPT !.rhs = rhs, !.w_val = w_val,
                             !.show_level_curve = show_level_curve,
                             !.iter_n = iter_n, !.w_err = w_err,
                             !.iter_p1 = linspace(AngleStart, AngleEnd, iter_n),
                             !.iter_p2 = linspace(AngleStart, AngleEnd, iter_n)]
    /\ pc' = "pw_loop"
    /\ UNCHANGED <<globals, fv, sw, cmp, rc>>

\* one pass of the inner loop: integrate, locate the crossing, record
p_w_plot_step ==
    /\ pc = "pw_loop"
    /\ pw.i < pw.iter_n
    /\ pw.j < pw.iter_n
    /\ LET a1 == pw.iter_p1[pw.i + 1]
           a2 == pw.iter_p2[pw.j + 1]
           ic == <<a1, w1, a2, w2>>
       IN  \E v_sol \in odeint(pw.rhs, ic, t_interval, p) :
             LET p1_arr == Col(v_sol, 0)
                 p2_arr == Col(v_sol, 2)
                 w2_arr == Col(v_sol, 3)
                 fv_args == <<l1, l2>>
                 t_index == find_vertical(fv_args[1], fv_args[2], p1_arr, p2_arr)
                 w2_at_vertical == neg(getitem(w2_arr, t_index))
                 f0 == [pw EXCEPT !.ode = OdeCall(pw.rhs, ic, t_interval, p),
                                  !.fv_args = fv_args]
             IN  IF w2_at_vertical.ndim # 0
                 THEN \* "if w2_at_vertical > ..." on an array of N > 1 elements
                      \* raises ValueError
                      /\ pw' = f0
                      /\ pc' = "pw_raised"
                 ELSE /\ pw' = [pw_level(pw_record(pw_track(f0, w2_at_vertical.v[1]),
                                                   a1, a2, w2_at_vertical.v[1]),
                                         a1, a2, w2_at_vertical.v[1])
                                  EXCEPT !.j = @ + 1]
                      /\ pc' = pc
    /\ UNCHANGED <<globals, fv, sw, cmp, rc>>

\* after the inner loop: the row's extrema and where they occurred
p_w_plot_row_end ==
    /\ pc = "pw_loop"
    /\ pw.i < pw.iter_n
    /\ pw.j >= pw.iter_n
    /\ LET f1 == [pw EXCEPT !.max_w2_list = Append(@, pw.max_w2_for_current_p1)]
           kmax == index(pw.w2_list, pw.max_w2_for_current_p1)
           f2 == [f1 EXCEPT !.max_p2_list = Append(@, pw.p2_list[kmax + 1]),
                            !.min_w2_list = Append(@, pw.min_w2_for_current_p1)]
           kmin == index(pw.w2_list, pw.min_w2_for_current_p1)
           f3 == [f2 EXCEPT !.min_p2_list = Append(@, pw.p2_list[kmin + 1]),
                            !.i = @ + 1, !.j = 0,
                            !.max_w2_for_current_p1 =
                                IF pw.i + 1 < pw.iter_n THEN max0 ELSE @,
                            !.min_w2_for_current_p1 =
                                IF pw.i + 1 < pw.iter_n THEN min0 ELSE @]
       IN  IF kmax = None
           THEN pw' = f1 /\ pc' = "pw_raised"
           ELSE IF kmin = None
                THEN pw' = f2 /\ pc' = "pw_raised"
                ELSE pw' = f3 /\ pc' = pc
    /\ UNCHANGED <<globals, fv, sw, cmp, rc>>

p_w_plot_return ==
    /\ pc = "pw_loop"
    /\ pw.i >= pw.iter_n
    /\ pc' = "pw_done"
    /\ UNCHANGED <<globals, fv, sw, pw, cmp, rc>>

\* -------------------------------------------------------- plot_comparison
\* the keyword flags the integration depends on (the others only select plots)
CmpFlags == {"show_periodicity", "compare_p_3D_difference", "compare_w_3D_difference",
             "plot_p_3D", "plot_sa_p_3D", "compare_p_3D",
             "plot_w_3D", "plot_sa_w_3D", "compare_w_3D",
             "compare_phase_space_p1", "compare_phase_space_p2"}
CmpICs == {<<HalfPi, 0, HalfPi, 0>>, <<QuarterPi, 0, QuarterPi, 0>>,
           <<AngleStart, 0, HalfPi, 1 * FP>>}
Pi == 2 * HalfPi
n_default == 8
k_default == 2

\* the frame of plot_comparison(ic, <flags>, n, k) once both systems are integrated
plot_comparison(ic, flags, n_arg, k_arg) ==
    LET scaled == \/ "show_periodicity" \in flags
                  \/ "compare_p_3D_difference" \in flags
                  \/ "compare_w_3D_difference" \in flags
        n == IF scaled THEN n_arg * 16 ELSE n_arg
        k == IF scaled THEN k_arg * 8 ELSE k_arg
        plotting3D == flags \cap {"plot_p_3D", "plot_sa_p_3D", "compare_p_3D",
                                  "plot_w_3D", "plot_sa_w_3D", "compare_w_3D"} # {}
        plot_phase_space == flags \cap {"compare_phase_space_p2",
                                        "compare_phase_space_p1"} # {}
        t == linspace(0,
                      IF plotting3D THEN (2 * k * Pi) \div 2
                      ELSE IF plot_phase_space THEN k * Pi ELSE n * Pi,
                      IF plotting3D THEN 2 * k * NSamples ELSE 2 * n * NSamples)
    IN  [ic |-> ic, flags |-> flags, n |-> n, k |-> k, t |-> t,
         calls |-> <<OdeCall("dp_rhs", IC, t, p),
                     OdeCall("sa_dp_rhs", IC, t, p)>>]

plot_comparison_call ==
    /\ pc = "idle"
    /\ \E ic \in CmpICs, flags \in SUBSET CmpFlags :
          cmp' = plot_comparison(ic, flags, n_default, k_default)
    /\ pc' = "cmp_done"
    /\ UNCHANGED <<globals, fv, sw, pw, rc>>

\* ------------------------------------------------------ dp_rhs, sa_dp_rhs
\* Direct evaluation on integer-valued reals, exact over the rationals: a
\* quotient is [num, den], and den = 0 is the non-finite value (inf or nan)
\* float division yields on an ndarray state.  Angles are in units of pi/2;
\* sa_dp_rhs is linear in the angles, so its w1_dot and w2_dot are in units of
\* pi/2 too.
RhsAngles == {0, 1, 3}
RhsOmegas == {-1, 0, 2}
RhsMasses == {0, 1, 2}
RhsLengths == {0, 1, 2}
RhsG == {10}
RhsStates == {<<a, x, b, y>> : a \in RhsAngles, x \in RhsOmegas,
                                b \in RhsAngles, y \in RhsOmegas}
RhsParams == {<<a, b, c, d, e>> : a \in RhsMasses, b \in RhsMasses,
                                   c \in RhsLengths, d \in RhsLengths, e \in RhsG}

dp_den_NoM2(v, pp) ==
    pp[1] * pp[3] - pp[2] * pp[3] * (cos(v[1] - v[3]) * cos(v[1] - v[3]))

\* the divisor of w1_dot: (m1+m2)*l1 - m2*l1*(cos(p1-p2)*cos(p1-p2))
dp_den(v, pp) ==
    (pp[1] + pp[2]) * pp[3] - pp[2] * pp[3] * (cos(v[1] - v[3]) * cos(v[1] - v[3]))

dp_accel_Clamped(v, pp) ==
    LET d == IF dp_den(v, pp) = 0 THEN 1 ELSE dp_den(v, pp)
    IN  <<[num |-> 0, den |-> d], [num |-> 0, den |-> d * pp[4]]>>

\* w1_dot and w2_dot of the exact system
dp_accel(v, pp) ==
    LET ph1 == v[1]
        om1 == v[2]
        ph2 == v[3]
        om2 == v[4]
        mm1 == pp[1]
        mm2 == pp[2]
        ll1 == pp[3]
        ll2 == pp[4]
        gg == pp[5]
        num1 == -(mm1 + mm2) * gg * sin(ph1) - mm2 * ll2 * om2 * om2 * sin(ph1 - ph2)
                - mm2 * cos(ph1 - ph2) * ll1 * om1 * om1 * sin(ph1 - ph2)
                + mm2 * gg * cos(ph1 - ph2) * sin(ph2)
        den1 == dp_den(v, pp)
        w1_dot == [num |-> num1, den |-> den1]
        \* (A - l1*w1_dot*cos)/l2 = (A*den1 - l1*num1*cos) / (den1*l2)
        w2_dot == [num |-> (ll1 * om1 * om1 * 2 * sin(ph1 - ph2) - gg * sin(ph2)) * den1
                           - ll1 * num1 * cos(ph1 - ph2),
                   den |-> den1 * ll2]
    IN  <<w1_dot, w2_dot>>

dp_rhs_Swapped(v, t, pp) ==
    LET a == dp_accel(v, pp) IN <<v[4], a[1], v[2], a[2]>>

\* f = [w1, w1_dot, w2, w2_dot]
dp_rhs(v, t, pp) ==
    LET a == dp_accel(v, pp) IN <<v[2], a[1], v[4], a[2]>>

sa_dp_accel_NoAngle(v, pp) ==
    LET num1 == (pp[5] * pp[3]) * (pp[2] * v[3] - (pp[1] + pp[2]) * v[1])
        den1 == pp[1] * pp[3] * pp[3]
    IN  <<[num |-> num1, den |-> den1],
          [num |-> -(pp[5] * den1 + pp[3] * num1), den |-> den1 * pp[4]]>>

\* w1_dot and w2_dot of the small-angle system
sa_dp_accel(v, pp) ==
    LET ph1 == v[1]
        ph2 == v[3]
        mm1 == pp[1]
        mm2 == pp[2]
        ll1 == pp[3]
        ll2 == pp[4]
        gg == pp[5]
        num1 == (gg * ll1) * (mm2 * ph2 - (mm1 + mm2) * ph1)
        den1 == mm1 * ll1 * ll1
        w1_dot == [num |-> num1, den |-> den1]
        \* -(g*p2 + l1*w1_dot)/l2 = -(g*p2*den1 + l1*num1) / (den1*l2)
        w2_dot == [num |-> -(gg * ph2 * den1 + ll1 * num1), den |-> den1 * ll2]
    IN  <<w1_dot, w2_dot>>

\* f = [w1, w1_dot, w2, w2_dot]
sa_dp_rhs(v, t, pp) ==
    LET a == sa_dp_accel(v, pp) IN <<v[2], a[1], v[4], a[2]>>

dp_rhs_call ==
    /\ pc = "idle"
    /\ \E v \in RhsStates, pp \in RhsParams :
          rc' = [rhs |-> "dp_rhs", v |-> v, p |-> pp, f |-> dp_rhs(v, 0, pp)]
    /\ pc' = "rhs_done"
    /\ UNCHANGED <<globals, fv, sw, pw, cmp>>

sa_dp_rhs_call ==
    /\ pc = "idle"
    /\ \E v \in RhsStates, pp \in RhsParams :
          rc' = [rhs |-> "sa_dp_rhs", v |-> v, p |-> pp, f |-> sa_dp_rhs(v, 0, pp)]
    /\ pc' = "rhs_done"
    /\ UNCHANGED <<globals, fv, sw, pw, cmp>>

\* ------------------------------------------------- the shared list p
\* p is a module-level list that the drivers read and take no argument for:
\* between two calls a notebook cell can store a new length into it
\* (p[2] = x or p[3] = x), which leaves the module-level names l1 and l2 as
\* they are.
PAssigned == {2 * FP}

cell_assign_p ==
    /\ pc = "idle"
    /\ \E k \in {3, 4}, x \in PAssigned :
          /\ p[k] # x
          /\ p' = [p EXCEPT ![k] = x]
    /\ UNCHANGED <<pc, IC, t_interval, fv, sw, pw, cmp, rc>>

\* ---------------------------------------------------------- specification
Init ==
    /\ pc = "idle"
    /\ p = p_0
    /\ IC = IC_0
    /\ t_interval = t_interval_0
    /\ fv = NoFrame
    /\ sw = NoFrame
    /\ pw = NoFrame
    /\ cmp = NoFrame
    /\ rc = NoFrame

Returned == {"fv_done", "lp_done", "mp_done", "pw_done", "pw_raised", "cmp_done", "rhs_done"}

\* control is back at the notebook cell: the frames are gone, the globals stay
cell_continue ==
    /\ pc \in Returned
    /\ pc' = "idle"
    /\ fv' = NoFrame /\ sw' = NoFrame /\ pw' = NoFrame /\ cmp' = NoFrame /\ rc' = NoFrame
    /\ UNCHANGED globals

NextFV == find_vertical_call \/ find_vertical_step \/ find_vertical_return \/ cell_continue
NextSweep == \/ length_plot_call \/ length_plot_step \/ length_plot_return
             \/ mass_plot_call \/ mass_plot_step \/ mass_plot_return
             \/ cell_continue
NextPW == \/ p_w_plot_call \/ p_w_plot_step \/ p_w_plot_row_end \/ p_w_plot_return
          \/ cell_continue
NextCmp == plot_comparison_call \/ cell_continue
NextRhs == dp_rhs_call \/ sa_dp_rhs_call \/ cell_continue
NextDrivers == \/ length_plot_call \/ length_plot_step \/ length_plot_return
               \/ mass_plot_call \/ mass_plot_step \/ mass_plot_return
               \/ p_w_plot_call \/ p_w_plot_step \/ p_w_plot_row_end \/ p_w_plot_return
               \/ cell_assign_p \/ cell_continue

Next == \/ find_vertical_call \/ find_vertical_step \/ find_vertical_return
        \/ length_plot_call \/ length_plot_step \/ length_plot_return
        \/ mass_plot_call \/ mass_plot_step \/ mass_plot_return
        \/ p_w_plot_call \/ p_w_plot_step \/ p_w_plot_row_end \/ p_w_plot_return
        \/ plot_comparison_call
        \/ dp_rhs_call \/ sa_dp_rhs_call
        \/ cell_assign_p
        \/ cell_continue

Spec == Init /\ [][Next]_vars
SpecFV == Init /\ [][NextFV]_vars
SpecSweep == Init /\ [][NextSweep]_vars
SpecPW == Init /\ [][NextPW]_vars
SpecCmp == Init /\ [][NextCmp]_vars
SpecRhs == Init /\ [][NextRhs]_vars
SpecDrivers == Init /\ [][NextDrivers]_vars

\* ================================================================== claims
SetMax(S) == CHOOSE x \in S : \A y \in S : y <= x
SetMin(S) == CHOOSE x \in S : \A y \in S : x <= y

\* ---- find_vertical (SpecFV)
FVIndices == 0..(Len(fv.p1) - 1)
FVDev(h) == Deviation(fv.l1, fv.l2, fv.p1, fv.p2, h)
FVMinIndices == {h \in FVIndices : \A e \in FVIndices : FVDev(h) <= FVDev(e)}

\* C1: for a nonempty series find_vertical returns an index whose deviation
\* |l1*sin(phi1[k]) + l2*sin(phi2[k])| is no larger than at any other index,
\* whatever the lengths.
C1_ReturnsMinimizer ==
    (pc = "fv_done" /\ Len(fv.p1) > 0) => fv.ret \in FVMinIndices

\* C2: when the minimum deviation is attained at two or more indices,
\* find_vertical returns the smallest of them (the scan runs through the
\* indices in increasing order over the series as given).
C2_EarliestOfTiedMinima ==
    (pc = "fv_done" /\ Cardinality(FVMinIndices) >= 2) => fv.ret = SetMin(FVMinIndices)

\* C3: find_vertical returns None if and only if the series is empty.
C3_NoneIffEmpty ==
    pc = "fv_done" => (fv.ret = None <=> Len(fv.p1) = 0)

\* ---- length_plot / mass_plot (SpecSweep)
InSweep == pc \in {"lp_loop", "lp_done", "mp_loop", "mp_done"}

\* C4: after a 1-D sweep the result list has n entries, and each entry is the
\* negated omega2 of that grid point's trajectory at the index find_vertical
\* returned for it (stated for the entry of the grid point just processed).
C4_EntryIsCrossingOmega ==
    InSweep =>
       /\ Len(sw.w2_list) = sw.i
       /\ pc \in {"lp_done", "mp_done"} => Len(sw.w2_list) = sw.n
       /\ sw.i > 0 =>
            /\ sw.t_index \in 0..(Len(sw.v_sol) - 1)
            /\ sw.w2_list[sw.i] = [ndim |-> 0, v |-> <<-(sw.v_sol[sw.t_index + 1][4])>>]

\* C7: a grid point whose trajectory yields no crossing index is skipped (no
\* entry) or marked with a single sentinel value, and the sweep goes on.
C7_FailedPointSkippedOrMarked ==
    (InSweep /\ sw.i > 0 /\ sw.t_index = None) =>
       \/ Len(sw.w2_list) < sw.i
       \/ sw.w2_list[sw.i].ndim = 0

\* ---- p_w_plot (SpecPW)
InPW == pc \in {"pw_loop", "pw_done", "pw_raised"}
PWVisited == pw.i * pw.iter_n + pw.j
\* the observables of row r (1-based), and the column of the first one equal to x
PWRow(r) == {pw.w2_list[(r - 1) * pw.iter_n + c] : c \in 1..pw.iter_n}
PWFirstCol(r, x) ==
    CHOOSE c \in 1..pw.iter_n :
        /\ pw.w2_list[(r - 1) * pw.iter_n + c] = x
        /\ \A d \in 1..(c - 1) : pw.w2_list[(r - 1) * pw.iter_n + d] # x

\* C5: every recorded row maximum is the largest observable of its row and
\* every recorded row minimum the smallest, for any observable values.
C5_RowExtrema ==
    InPW =>
       /\ \A r \in 1..Len(pw.max_w2_list) : pw.max_w2_list[r] = SetMax(PWRow(r))
       /\ \A r \in 1..Len(pw.min_w2_list) : pw.min_w2_list[r] = SetMin(PWRow(r))

\* C6, first half: the second angle recorded with a row's extremum is that of
\* the first grid point of the same row whose observable equals the extremum.
C6_SameRow ==
    InPW =>
       /\ \A r \in 1..Len(pw.max_p2_list) :
             pw.max_p2_list[r] = pw.iter_p2[PWFirstCol(r, SetMax(PWRow(r)))]
       /\ \A r \in 1..Len(pw.min_p2_list) :
             pw.min_p2_list[r] = pw.iter_p2[PWFirstCol(r, SetMin(PWRow(r)))]

\* C6, second half: the lookup of the extremum in the flat list never fails.
C6_LookupSucceeds == pc # "pw_raised"

\* C6: the second angle recorded with each row extremum comes from the first
\* grid point of that same row attaining it, and the lookup always succeeds.
C6_ExtremumAngleFromSameRow == C6_LookupSucceeds /\ C6_SameRow

\* C8: the sweep visits the grid first angle outer, second angle inner; after
\* every inner step the three flat lists have one entry per visited grid point,
\* in visiting order; at completion they hold iter_n*iter_n entries and each
\* per-row extremum list iter_n entries.
C8_FlatListsFollowGrid ==
    InPW =>
       /\ Len(pw.p1_list) = PWVisited
       /\ Len(pw.p2_list) = PWVisited
       /\ Len(pw.w2_list) = PWVisited
       /\ \A h \in 1..PWVisited :
             /\ pw.p1_list[h] = pw.iter_p1[((h - 1) \div pw.iter_n) + 1]
             /\ pw.p2_list[h] = pw.iter_p2[((h - 1) % pw.iter_n) + 1]
       /\ (pc = "pw_loop" /\ pw.j > 0) => pw.w2_list[PWVisited] = pw.w2_at_vertical
       /\ pc = "pw_done" =>
             /\ PWVisited = pw.iter_n * pw.iter_n
             /\ Len(pw.max_w2_list) = pw.iter_n /\ Len(pw.max_p2_list) = pw.iter_n
             /\ Len(pw.min_w2_list) = pw.iter_n /\ Len(pw.min_p2_list) = pw.iter_n

C8_Witness ==
    /\ pc = "pw_done"
    /\ pw.iter_n >= 2
    /\ Len(pw.w2_list) = pw.iter_n * pw.iter_n
    /\ pw.p1_list[1] # pw.p1_list[Len(pw.p1_list)]
    /\ pw.p2_list[1] # pw.p2_list[2]

\* ---- plot_comparison (SpecCmp)
\* C9: both integrations of plot_comparison start from its ic argument.
C9_IntegratesFromArgument ==
    pc = "cmp_done" => \A c \in 1..Len(cmp.calls) : cmp.calls[c].y0 = cmp.ic

\* ---- dp_rhs / sa_dp_rhs (SpecRhs)
\* C10: for both right-hand sides the first component of the derivative is
\* omega1 and the third is omega2, unchanged.
C10_PassThrough ==
    pc = "rhs_done" => (rc.f[1] = rc.v[2] /\ rc.f[3] = rc.v[4])

C10_Witness ==
    /\ pc = "rhs_done"
    /\ rc.rhs = "dp_rhs"
    /\ rc.v[2] = 2 /\ rc.v[4] = -1
    /\ rc.f[2].den # 0 /\ rc.f[2].num # 0

\* a direct call of rhs has returned
RhsReturned(rhs) == pc = "rhs_done" /\ rc.rhs = rhs

\* the quotient q is the finite value zero
IsZero(q) == q.num = 0 /\ q.den # 0

\* the quotient q is inf or nan
NonFinite(q) == q.den = 0

C13_SingularityPropagates ==
    (RhsReturned("dp_rhs") /\ dp_den(rc.v, rc.p) = 0)
    => NonFinite(rc.f[2]) /\ NonFinite(rc.f[4])

\* a massless first bob with parallel rods: the divisor is m1*l1 = 0
C13_Witness ==
    /\ RhsReturned("dp_rhs")
    /\ rc.p[1] = 0 /\ rc.p[2] = 1 /\ rc.p[3] = 1 /\ rc.p[4] = 2
    /\ rc.v[1] = rc.v[3]
    /\ NonFinite(rc.f[2]) /\ NonFinite(rc.f[4])

\* ---- the parameter lists of the sweeps (SpecSweep, SpecDrivers)
\* the component of the parameter list a 1-D sweep varies (1-based)
Designated ==
    IF sw.fn = "length_plot" THEN (IF sw.first THEN 3 ELSE 4)
                             ELSE (IF sw.first THEN 1 ELSE 2)

\* C14: at every grid point of length_plot and mass_plot the parameter list
\* handed to odeint is the base list p with the designated component (l1 or
\* l2, m1 or m2) replaced by the current grid value and every other component
\* at its base value, at the first grid point and at the later ones.
C14_OnlyDesignatedComponentVaries ==
    (InSweep /\ sw.i > 0)
    => sw.ode.args = [p EXCEPT ![Designated] = sw.arr[sw.i]]

\* the second grid point of a sweep of l2: l1 is still the base value
C14_Witness ==
    /\ pc = "lp_loop"
    /\ ~sw.first
    /\ sw.i = 2
    /\ sw.arr[1] # sw.arr[2]
    /\ sw.ode.args[4] = sw.arr[2]
    /\ sw.ode.args[3] = p[3]

\* C15: at every grid point of length_plot, mass_plot and p_w_plot the two
\* lengths passed to find_vertical are the l1 and l2 components of the
\* parameter list the trajectory was integrated with, whatever p holds.
C15_CrossingUsesIntegratedLengths ==
    /\ (InSweep /\ sw.i > 0)
       => sw.fv_args = <<sw.ode.args[3], sw.ode.args[4]>>
    /\ (InPW /\ pw.ode # NoCall)
       => pw.fv_args = <<pw.ode.args[3], pw.ode.args[4]>>

\* C16: no step of length_plot, mass_plot or p_w_plot, from its call to its
\* return, changes p, IC or t_interval; whatever sweeps ran before, the next
\* one finds the base state it was left with outside the sweeps.
C16_DriversKeepSharedState ==
    [][(pc # "idle" \/ pc' # "idle") => UNCHANGED globals]_vars

\* a sweep of l1 has stored two grid values into its own list and returned
C16_Witness ==
    /\ pc = "lp_done"
    /\ sw.first
    /\ sw.i = 2
    /\ sw.p_x[3] = sw.arr[2]
    /\ sw.p_x # p
    /\ p[3] \in PAssigned

====
